---- MODULE Spec2Model ----
(***************************************************************************)
(* Entity resolution and caching of auraxium (base.py, ps2/_character.py,  *)
(* ps2/_outfit.py): the per-type TLRU cache, the Cached / Named lookup     *)
(* protocol with its fallback table, and the bulk searches.                *)
(*                                                                         *)
(* A coroutine runs atomically between two awaits, so every lookup is two  *)
(* actions: the part up to `await client.request(...)` and the part after  *)
(* the executor has answered.                                              *)
(***************************************************************************)
EXTENDS Integers, Sequences, FiniteSets, TLC

VARIABLES
    cache,      \* cls._cache per type: entries in recency order (head = LRU)
    size,       \* cls._cache.size per type
    ttu,        \* cls._cache.ttu per type
    fallback,   \* cls._fallback per type: whether declared, and the ids it holds
    heap,       \* the entity objects, by object identity
    now,        \* the clock the cache reads
    task,       \* per caller task: the lookup it runs and what it returned
    used        \* the types this run exercises

vars == <<cache, size, ttu, fallback, heap, now, task, used>>

-----------------------------------------------------------------------------
(* Bounds *)

MaxId == 2          \* ids are 1..MaxId
MaxSize == 2        \* cache sizes are 1..MaxSize
MaxTtu == 1         \* ttu values are 0..MaxTtu

MaxTime == MaxTtu + 1   \* the clock runs until every ttu can have passed
MaxFind == MaxId        \* a collection holds each id once

Ids == 1..MaxId
TimeIds == 1..(MaxSize + 1)
None == 0
MinTtu == -1        \* a negative ttu, as a caller may pass one
NoTtu == MinTtu - 1
NoTable == [has |-> FALSE, ids |-> {}]
Table(ids) == [has |-> TRUE, ids |-> ids]
(* The fallback table of a type that declares one has an entry for id 1    *)
(* and none for the other ids.                                             *)
FallbackIds == {1}
MaxInst == MaxSize + 2 * MaxFind + 1
Instances == 1..MaxInst
NoObj == [cls |-> "none", id |-> 0, src |-> "none"]

Tasks == {"t1"}

(* Every task of the application: a second one runs where two lookups are *)
(* gathered, and stays idle elsewhere.                                     *)
Gathered == {"t1", "t2"}

(* The entity types of src/auraxium/ps2 that this model covers.  Outfit    *)
(* overrides get_by_name line for line as Character does, and Character    *)
(* stands for both in the lookups; Outfit itself appears as the owner of   *)
(* proxies.  CharacterSubclass is a class an application derives from      *)
(* Character; __init_subclass__ gives it a cache of its own.               *)
OutfitMember == "OutfitMember"
Title == "Title"
Character == "Character"
Outfit == "Outfit"
CharacterSubclass == "CharacterSubclass"
Types == {OutfitMember, Title, Character, Outfit, CharacterSubclass}
NamedTypes == {Title, Character, Outfit, CharacterSubclass}
OverridesGetByName == {Character, Outfit, CharacterSubclass}

(* The types the lookups are exercised on, one in a run. *)
LookupTypes == {OutfitMember, Title, Character}

(* The classes c derives from, c itself included. *)
Bases(c) == IF c = CharacterSubclass THEN {CharacterSubclass, Character}
            ELSE {c}

-----------------------------------------------------------------------------
(* Strings are sequences of characters, so that str.lower() and the        *)
(* f-string that builds a cache key are computed, not assumed.             *)

Upper == <<"A", "B", "C", "D">>
LowerOf == <<"a", "b", "c", "d">>

LowerChar(ch) ==
    IF \E i \in 1..Len(Upper) : Upper[i] = ch
    THEN LowerOf[CHOOSE i \in 1..Len(Upper) : Upper[i] = ch]
    ELSE ch

Lower(s) == [i \in 1..Len(s) |-> LowerChar(s[i])]

Locales == {<<"e", "n">>, <<"d", "e">>}
NoLocale == <<>>
(* A locale that is no attribute of LocaleData. *)
BadLocale == <<"x", "x">>

(* The remote data set: the name of entity i in a locale.  Title names are *)
(* localised; Character and Outfit have one name whatever the locale.      *)
RemoteName(c, i, loc) ==
    IF c = Title /\ loc = <<"d", "e">>
    THEN <<Upper[(i % MaxId) + 1], "x">>
    ELSE <<Upper[i], "x">>

(* The names a caller asks for: every remote name, as stored and lowered. *)
LookupNames ==
    UNION {{<<Upper[i], "x">>, <<LowerOf[i], "x">>} : i \in Ids}

IdKey(i) == [k |-> "id", id |-> i, s |-> <<>>]
StrKey(s) == [k |-> "str", id |-> 0, s |-> s]

-----------------------------------------------------------------------------
(* The TLRU cache (auraxium/cache.py, which base.py imports): a sequence   *)
(* of entries in recency order, least recently used first.                 *)

KeyIndex(q, key) ==
    IF \E j \in 1..Len(q) : q[j].key = key
    THEN CHOOSE j \in 1..Len(q) : q[j].key = key
    ELSE 0

RemoveAt(q, j) == SubSeq(q, 1, j - 1) \o SubSeq(q, j + 1, Len(q))

Keys(q) == {q[j].key : j \in 1..Len(q)}

Expired(e, t, u) == u > 0 /\ t - e.ins > u

(* An add that never evicts. *)
CacheAddNoEvict(q, key, val, t, n) ==
    LET j == KeyIndex(q, key)
        q1 == IF j = 0 THEN q ELSE RemoveAt(q, j)
    IN  Append(q1, [key |-> key, val |-> val, ins |-> t])

(* An add that, on overflow, evicts the entry used last before the new one. *)
CacheAddEvictsNewest(q, key, val, t, n) ==
    LET j == KeyIndex(q, key)
        q1 == IF j = 0 THEN q ELSE RemoveAt(q, j)
        q2 == Append(q1, [key |-> key, val |-> val, ins |-> t])
    IN  IF Len(q2) > n THEN RemoveAt(q2, Len(q2) - 1) ELSE q2

(* TLRUCache.add: insert or overwrite, mark most recently used, and evict  *)
(* the least recently used entry when the size is exceeded.                *)
CacheAdd(q, key, val, t, n) ==
    LET j == KeyIndex(q, key)
        q1 == IF j = 0 THEN q ELSE RemoveAt(q, j)
        q2 == Append(q1, [key |-> key, val |-> val, ins |-> t])
    IN  IF Len(q2) > n THEN Tail(q2) ELSE q2

(* A get whose hit restarts the age of the entry. *)
CacheGetSliding(q, key, t, u) ==
    LET j == KeyIndex(q, key)
    IN  IF j = 0 THEN [cache |-> q, val |-> None, expired |-> FALSE]
        ELSE IF Expired(q[j], t, u)
             THEN [cache |-> RemoveAt(q, j), val |-> None, expired |-> TRUE]
             ELSE [cache |-> Append(RemoveAt(q, j), [q[j] EXCEPT !.ins = t]),
                   val |-> q[j].val, expired |-> FALSE]

(* TLRUCache.get: the value and the cache after the access.  A hit moves   *)
(* the entry to the most recently used end and keeps its insertion time;   *)
(* an expired entry is removed and reported as absent.                     *)
CacheGet(q, key, t, u) ==
    LET j == KeyIndex(q, key)
    IN  IF j = 0 THEN [cache |-> q, val |-> None, expired |-> FALSE]
        ELSE IF Expired(q[j], t, u)
             THEN [cache |-> RemoveAt(q, j), val |-> None, expired |-> TRUE]
             ELSE [cache |-> Append(RemoveAt(q, j), q[j]), val |-> q[j].val,
                   expired |-> FALSE]

(* TLRUCache.clear *)
CacheClear(q) == <<>>

-----------------------------------------------------------------------------
(* Payloads.  A payload is told by its id, where it comes from, the state  *)
(* of its id field ("ok", "absent", "bad" for a value int() rejects), the  *)
(* state of the fields the data class needs ("ok", "missing", "bad" for a  *)
(* value that fails validation) and the keys it holds besides those the    *)
(* data class consumes.  A key is a sequence of pieces of text.            *)

ExtraKey == <<"extra">>
JoinKey == <<"outfit", "_join_", "member">>
LeftKeys == {ExtraKey, JoinKey}

(* '_join_' in k *)
IsJoinKey(k) == \E j \in 1..Len(k) : k[j] = "_join_"

Payload(i, src, idf, fld, left) ==
    [id |-> i, src |-> src, idf |-> idf, fld |-> fld, left |-> left]

(* The shapes a payload can have: well formed, with one defect, or with    *)
(* keys left over.                                                         *)
Shapes ==
    {[idf |-> "ok", fld |-> "ok", left |-> l] : l \in SUBSET LeftKeys}
    \cup {[idf |-> f, fld |-> "ok", left |-> {}] : f \in {"absent", "bad"}}
    \cup {[idf |-> "ok", fld |-> f, left |-> {}] : f \in {"missing", "bad"}}

OkShape == [idf |-> "ok", fld |-> "ok", left |-> {}]

Shaped(i, src, sh) == Payload(i, src, sh.idf, sh.fld, sh.left)

-----------------------------------------------------------------------------
(* Entity construction.  st = [cache, heap, made, exc, warn]: the cache of *)
(* the type being constructed, the objects, the instances built so far by  *)
(* the running call, in order, the exception that ended the call, and the  *)
(* warnings issued, each by the keys it lists.                             *)

Fresh(h) == CHOOSE n \in Instances :
                /\ h[n] = NoObj
                /\ \A m \in Instances : h[m] = NoObj => n <= m

(* Named.name: the localised name held in the payload of the object. *)
NameOf(o, loc) == RemoteName(o.cls, o.id, loc)

(* The cache key of a name: f'{locale}_{name.lower()}' *)
NameKey(loc, name) == StrKey(loc \o <<"_">> \o Lower(name))

(* int(data[self.id_field]), which stands before the try block: what it   *)
(* raises.                                                                 *)
IdError(raw) ==
    IF raw.idf = "absent" THEN "KeyError"
    ELSE IF raw.idf = "bad" THEN "ValueError"
    ELSE "none"

(* self._build_dataclass(data): what it raises, and the keys of the copy   *)
(* of the payload it has not popped.                                       *)
BuildDataclass(raw) ==
    [exc |-> IF raw.fld = "missing" THEN "KeyError"
             ELSE IF raw.fld = "bad" THEN "ValueError"
             ELSE "none",
     left |-> raw.left]

(* filter(...) returns an iterator; list() over it gives what is left of   *)
(* it and leaves it empty.                                                 *)
ListOf(it) == [items |-> it, rest |-> {}]

(* The warnings of Ps2Object.__init__ for the keys left in data.  The      *)
(* filter object is true whatever it holds; len(list(keys)) drains it, and *)
(* the list(keys) of the message is taken from what remains.               *)
Warnings(left) ==
    LET keys == {k \in left : ~IsJoinKey(k)}
        counted == ListOf(keys)
        listed == ListOf(counted.rest)
    IN  IF left # {} THEN <<listed.items>> ELSE <<>>

(* Ps2Object.__init__: a new object holding the id and the payload. *)
Ps2ObjectInit(st, c, raw) ==
    IF IdError(raw) # "none" THEN [st EXCEPT !.exc = IdError(raw)]
    ELSE IF BuildDataclass(raw).exc \in {"KeyError", "ValueError"}
    THEN [st EXCEPT !.exc = "PayloadError"]
    ELSE LET n == Fresh(st.heap)
         IN  [st EXCEPT !.heap[n] = [cls |-> c, id |-> raw.id, src |-> raw.src],
                        !.made = Append(st.made, n),
                        !.warn = st.warn \o Warnings(BuildDataclass(raw).left)]

(* A Cached.__init__ that leaves the cache alone. *)
CachedInitUnregistered(st, c, raw) == Ps2ObjectInit(st, c, raw)

(* Cached.__init__: the parent initialiser, then self._cache.add(id, self) *)
CachedInit(st, c, raw) ==
    LET s1 == Ps2ObjectInit(st, c, raw)
    IN  IF s1.exc # "none" THEN s1
        ELSE [s1 EXCEPT !.cache = CacheAdd(s1.cache, IdKey(raw.id),
                                           s1.made[Len(s1.made)], now, size[c])]

(* Named.name(locale): getattr(data.name, locale), an AttributeError       *)
(* becoming a ValueError.                                                  *)
NameError(loc) == IF loc \in Locales THEN "none" ELSE "ValueError"

(* A Named.__init__ that leaves the name in the key as it is spelled. *)
NamedInitKeyAsSpelled(st, c, raw, loc) ==
    LET s1 == CachedInit(st, c, raw)
    IN  IF s1.exc # "none" \/ loc = NoLocale THEN s1
        ELSE IF NameError(loc) # "none" THEN [s1 EXCEPT !.exc = NameError(loc)]
        ELSE LET n == s1.made[Len(s1.made)]
             IN  [s1 EXCEPT !.cache =
                     CacheAdd(s1.cache,
                              StrKey(loc \o <<"_">> \o NameOf(s1.heap[n], loc)),
                              n, now, size[c])]

(* Named.__init__: Cached.__init__, then, when a locale is given, a second *)
(* add under the name key.                                                 *)
NamedInit(st, c, raw, loc) ==
    LET s1 == CachedInit(st, c, raw)
    IN  IF s1.exc # "none" \/ loc = NoLocale THEN s1
        ELSE IF NameError(loc) # "none" THEN [s1 EXCEPT !.exc = NameError(loc)]
        ELSE LET n == s1.made[Len(s1.made)]
             IN  [s1 EXCEPT !.cache =
                     CacheAdd(s1.cache, NameKey(loc, NameOf(s1.heap[n], loc)),
                              n, now, size[c])]

(* cls(payload, ...) for a modelled type. *)
New(st, c, raw, loc) ==
    IF c \in NamedTypes THEN NamedInit(st, c, raw, loc)
    ELSE CachedInit(st, c, raw)

(* [cls(i, client=client) for i in extract_payload(matches, collection)] *)
RECURSIVE BuildAll(_, _, _)
BuildAll(st, c, raws) ==
    IF raws = <<>> \/ st.exc # "none" THEN st
    ELSE BuildAll(New(st, c, Head(raws), NoLocale), c, Tail(raws))

Live(i) == Shaped(i, "live", OkShape)
FromFallback(i) == Shaped(i, "fallback", OkShape)

(* Objects nobody refers to any more are dropped from the heap. *)
Referenced(cch, tsk) ==
    UNION {{cch[c][j].val : j \in 1..Len(cch[c])} : c \in Types}
    \cup UNION {{tsk[t].res, tsk[t].kept}
                \cup {tsk[t].list[j] : j \in 1..Len(tsk[t].list)}
                : t \in Gathered}

(* A collection that takes the entities the caller holds on to for        *)
(* unreferenced once the cache has let go of them.                         *)
CollectForgetsKept(h, cch, tsk) ==
    [n \in Instances |->
        IF n \in Referenced(cch, [t \in Gathered |-> [tsk[t] EXCEPT !.kept = None]])
        THEN h[n] ELSE NoObj]

Collect(h, cch, tsk) ==
    [n \in Instances |-> IF n \in Referenced(cch, tsk) THEN h[n] ELSE NoObj]

-----------------------------------------------------------------------------
(* Caller tasks *)

NoAnswer == [key |-> FALSE, kind |-> "none", val |-> 0]

(* A proxy: its kind, the type it constructs, the limit of its query, and  *)
(* how often it was resolved and how many requests that took.              *)
NoProxy == [kind |-> "none", cls |-> "none", limit |-> 0,
            resolved |-> 0, requests |-> 0]

(* What the caller remembers of the get_by_id before the running one:     *)
(* whether it asked the executor, what the executor answered, and whether  *)
(* the call returned an entity.                                            *)
NoPrev == [set |-> FALSE, asked |-> FALSE, resp |-> <<>>, some |-> FALSE]

(* The values of utils.py: a leaf, or a dict from keys to values; NoNode   *)
(* where there is no value.                                                *)
NoItems == [k \in {} |-> 0]
Leaf(n) == [kind |-> "leaf", val |-> n, items |-> NoItems]
Dict(f) == [kind |-> "dict", val |-> 0, items |-> f]
NoNode == [kind |-> "none", val |-> 0, items |-> NoItems]

(* The outcome of a comparison of two entities a and b: a == b, b == a,    *)
(* and whether their hashes agree.                                         *)
NoCmp == [done |-> FALSE, ab |-> FALSE, ba |-> FALSE, hash |-> FALSE]

Idle == [pc |-> "idle", op |-> "none", cls |-> "none", id |-> 0,
         name |-> <<>>, loc |-> NoLocale, n |-> 0, u |-> NoTtu,
         res |-> None, list |-> <<>>, calls |-> 0, exc |-> "none",
         resp |-> <<>>, expired |-> FALSE, pay |-> <<>>, warn |-> <<>>,
         ans |-> NoAnswer, kept |-> None, proxy |-> NoProxy, cmp |-> NoCmp,
         prev |-> NoPrev, args |-> <<>>, online |-> <<>>,
         dict |-> NoNode, key |-> <<>>, out |-> NoNode]

(* The call a task starts: its operation and arguments, nothing returned.  *)
(* calls counts the requests handed to the executor, resp is the list of   *)
(* ids the executor answered with, expired tells that the cache check met  *)
(* an entry past its ttu, pay holds the payloads the call constructed from *)
(* and warn the warnings it issued.  kept is an entity the caller holds on *)
(* to across its calls, proxy a proxy it holds.                            *)
Call(op, c, i, name, loc, n) ==
    [Idle EXCEPT !.pc = "wait", !.op = op, !.cls = c, !.id = i,
                 !.name = name, !.loc = loc, !.n = n, !.calls = 1]

Returned(rec, res, list) ==
    [rec EXCEPT !.pc = "done", !.res = res, !.list = list]

Raised(rec, exc) == [rec EXCEPT !.pc = "done", !.exc = exc]

(* The end of a call that constructed entities: its result, or the         *)
(* exception a constructor raised, and the warnings issued on the way.     *)
Finished(rec, st, res, list) ==
    IF st.exc = "none"
    THEN [Returned(rec, res, list) EXCEPT !.warn = st.warn]
    ELSE [Raised(rec, st.exc) EXCEPT !.warn = st.warn]

(* A caller awaits one call at a time and starts the next one once it has  *)
(* let go of what the previous one returned.                               *)
CanStart(t, c) == task[t].pc = "idle" /\ c \in used

Store(c) == [cache |-> cache[c], heap |-> heap, made |-> <<>>,
             exc |-> "none", warn |-> <<>>]

(* A write-back into one cache that all types share. *)
CommitSharedCache(t, c, q, h, rec) ==
    /\ cache' = [d \in Types |-> q]
    /\ task' = [task EXCEPT ![t] = [rec EXCEPT !.kept = task[t].kept]]
    /\ heap' = Collect(h, cache', task')
    /\ UNCHANGED <<size, ttu, fallback, now, used>>

(* Write back the cache of type c, the record of task t and the heap. *)
Commit(t, c, q, h, rec) ==
    /\ cache' = [cache EXCEPT ![c] = q]
    /\ task' = [task EXCEPT ![t] = [rec EXCEPT !.kept = task[t].kept]]
    /\ heap' = Collect(h, cache', task')
    /\ UNCHANGED <<size, ttu, fallback, now, used>>

(* What the executor can answer to a query: at most n raw objects of the   *)
(* collection, each id at most once, in any order.                         *)
Responses(n) ==
    {r \in UNION {[1..k -> Ids] : k \in 0..n} :
        \A a, b \in 1..Len(r) : r[a] = r[b] => a = b}

(* The payloads of an answer: one per id, each of any shape. *)
Payloads(r) ==
    {[j \in 1..Len(r) |-> Shaped(r[j], "live", sh[j])] :
        sh \in [1..Len(r) -> Shapes]}

(* The well-formed payloads of an answer. *)
Raws(r) == [j \in 1..Len(r) |-> Live(r[j])]

Answer(rec, r, ps) == [rec EXCEPT !.resp = r, !.pay = ps]

-----------------------------------------------------------------------------
(* cls._cache.get(key), as Cached._check_cache does it. *)
CheckCache(c, key) == CacheGet(cache[c], key, now, ttu[c])

(* A get_by_id that never looks at its cache. *)
GetByIdCallAlwaysFetch(t, c, i) ==
    /\ CanStart(t, c)
    /\ Commit(t, c, cache[c], heap, Call("get_by_id", c, i, <<>>, NoLocale, 1))

(* Cached.get_by_id up to the await: the cache check. *)
GetByIdCall(t, c, i) ==
    /\ CanStart(t, c)
    /\ LET g == CheckCache(c, IdKey(i))
           rec == [Call("get_by_id", c, i, <<>>, NoLocale, 1)
                       EXCEPT !.expired = g.expired]
       IN  IF g.val # None
           THEN Commit(t, c, g.cache, heap,
                       Returned([rec EXCEPT !.calls = 0], g.val, <<>>))
           ELSE Commit(t, c, g.cache, heap, rec)

(* Ps2Object.get_by_id once find(results=1) has its answer: the result of  *)
(* the method, given the instances find built.                             *)
(* A get_by_id that ignores the fallback table. *)
GetByIdResultNoFallback(st, c, i) ==
    IF st.made # <<>>
    THEN [st |-> st, res |-> st.made[1]]
    ELSE [st |-> st, res |-> None]

GetByIdResult(st, c, i) ==
    IF fallback[c].has
    THEN IF i \in fallback[c].ids
         THEN IF st.made # <<>>
              THEN [st |-> st, res |-> st.made[1]]
              ELSE LET s2 == New(st, c, FromFallback(i), NoLocale)
                   IN  [st |-> s2, res |-> s2.made[Len(s2.made)]]
         ELSE [st |-> st, res |-> None]
    ELSE IF st.made # <<>>
         THEN [st |-> st, res |-> st.made[1]]
         ELSE [st |-> st, res |-> None]

(* A get_by_id that asks the executor a second time when the first answer  *)
(* was empty.                                                              *)
GetByIdReturnRetries(t, r, ps) ==
    /\ task[t].pc = "wait" /\ task[t].op = "get_by_id"
    /\ r \in {<<>>, <<task[t].id>>}
    /\ ps \in Payloads(r)
    /\ LET c == task[t].cls
           found == BuildAll(Store(c), c, ps)
           out == IF found.exc # "none" THEN [st |-> found, res |-> None]
                  ELSE GetByIdResult(found, c, task[t].id)
       IN  IF r = <<>> /\ task[t].calls = 1
           THEN Commit(t, c, cache[c], heap, [task[t] EXCEPT !.calls = 2])
           ELSE Commit(t, c, out.st.cache, out.st.heap,
                       Finished(Answer(task[t], r, ps), out.st, out.res, <<>>))

GetByIdReturn(t, r, ps) ==
    /\ task[t].pc = "wait" /\ task[t].op = "get_by_id"
    /\ r \in {<<>>, <<task[t].id>>}
    /\ ps \in Payloads(r)
    /\ LET c == task[t].cls
           found == BuildAll(Store(c), c, ps)
           out == IF found.exc # "none" THEN [st |-> found, res |-> None]
                  ELSE GetByIdResult(found, c, task[t].id)
       IN  Commit(t, c, out.st.cache, out.st.heap,
                  Finished(Answer(task[t], r, ps), out.st, out.res, <<>>))

(* The caller repeats the get_by_id that has just returned, for the same   *)
(* id: Cached.get_by_id up to the await again.                             *)
GetByIdAgain(t) ==
    /\ task[t].pc = "done" /\ task[t].op = "get_by_id"
    /\ task[t].exc = "none" /\ ~task[t].prev.set
    /\ LET c == task[t].cls
           i == task[t].id
           g == CheckCache(c, IdKey(i))
           rec == [Call("get_by_id", c, i, <<>>, NoLocale, 1)
                       EXCEPT !.expired = g.expired,
                              !.prev = [set |-> TRUE,
                                        asked |-> task[t].calls = 1,
                                        resp |-> task[t].resp,
                                        some |-> task[t].res # None]]
       IN  IF g.val # None
           THEN Commit(t, c, g.cache, heap,
                       Returned([rec EXCEPT !.calls = 0], g.val, <<>>))
           ELSE Commit(t, c, cache[c], heap, rec)

(* The answer to a get_by_id from remote data that has not changed since   *)
(* the get_by_id before it.                                                *)
GetByIdReturnSame(t, r, ps) ==
    /\ task[t].prev.asked => r = task[t].prev.resp
    /\ GetByIdReturn(t, r, ps)

-----------------------------------------------------------------------------
(* A find that answers from the cache when the cache holds anything. *)
FindCallFromCache(t, c, n) ==
    /\ CanStart(t, c)
    /\ LET rec == Call("find", c, 0, <<>>, NoLocale, n)
       IN  IF cache[c] # <<>>
           THEN Commit(t, c, cache[c], heap,
                       Returned([rec EXCEPT !.calls = 0], None,
                                <<cache[c][Len(cache[c])].val>>))
           ELSE Commit(t, c, cache[c], heap, rec)

(* Ps2Object.find up to the await: the query is built and handed over. *)
FindCall(t, c, n) ==
    /\ CanStart(t, c)
    /\ Commit(t, c, cache[c], heap, Call("find", c, 0, <<>>, NoLocale, n))

FindReturn(t, r, ps) ==
    /\ task[t].pc = "wait" /\ task[t].op = "find"
    /\ r \in Responses(task[t].n)
    /\ ps \in Payloads(r)
    /\ LET c == task[t].cls
           st == BuildAll(Store(c), c, ps)
       IN  Commit(t, c, st.cache, st.heap,
                  Finished(Answer(task[t], r, ps), st, None, st.made))

(* Ps2Object.get: find(results=1), then the first result or None. *)
GetCall(t, c) ==
    /\ CanStart(t, c)
    /\ Commit(t, c, cache[c], heap, Call("get", c, 0, <<>>, NoLocale, 1))

GetReturn(t, r, ps) ==
    /\ task[t].pc = "wait" /\ task[t].op = "get"
    /\ r \in Responses(1)
    /\ ps \in Payloads(r)
    /\ LET c == task[t].cls
           st == BuildAll(Store(c), c, ps)
       IN  Commit(t, c, st.cache, st.heap,
                  Finished(Answer(task[t], r, ps), st,
                           IF st.made # <<>> THEN st.made[1] ELSE None, <<>>))

-----------------------------------------------------------------------------
(* get_by_name: Named.get_by_name, and the overrides of Character and      *)
(* Outfit, which look up f'_{name.lower()}' and construct without locale.  *)

LookupKey(c, name, loc) ==
    IF c \in OverridesGetByName THEN NameKey(NoLocale, name)
    ELSE NameKey(loc, name)

ConstructLocale(c, loc) ==
    IF c \in OverridesGetByName THEN NoLocale ELSE loc

(* A get_by_name that never looks at its cache. *)
GetByNameCallAlwaysFetch(t, c, name, loc) ==
    /\ CanStart(t, c)
    /\ c \in NamedTypes
    /\ Commit(t, c, cache[c], heap, Call("get_by_name", c, 0, name, loc, 1))

GetByNameCall(t, c, name, loc) ==
    /\ CanStart(t, c)
    /\ c \in NamedTypes
    /\ LET g == CheckCache(c, LookupKey(c, name, loc))
           rec == [Call("get_by_name", c, 0, name, loc, 1)
                       EXCEPT !.expired = g.expired]
       IN  IF g.val # None
           THEN Commit(t, c, g.cache, heap,
                       Returned([rec EXCEPT !.calls = 0], g.val, <<>>))
           ELSE Commit(t, c, g.cache, heap, rec)

(* The entities the case-insensitive name query matches. *)
NameMatches(c, name, loc) ==
    {i \in Ids : Lower(RemoteName(c, i, loc)) = Lower(name)}

(* A get_by_name that lets the NotFoundError of extract_single escape. *)
GetByNameResultUncaught(st, c, ps, loc) ==
    IF ps = <<>>
    THEN [st |-> st, res |-> None, exc |-> "NotFoundError"]
    ELSE LET s2 == New(st, c, ps[1], ConstructLocale(c, loc))
         IN  [st |-> s2, exc |-> s2.exc,
              res |-> IF s2.exc = "none" THEN s2.made[Len(s2.made)] ELSE None]

(* extract_single raises NotFoundError on an empty list; get_by_name       *)
(* catches it and returns None.                                            *)
GetByNameResult(st, c, ps, loc) ==
    IF ps = <<>>
    THEN [st |-> st, res |-> None, exc |-> "none"]
    ELSE LET s2 == New(st, c, ps[1], ConstructLocale(c, loc))
         IN  [st |-> s2, exc |-> s2.exc,
              res |-> IF s2.exc = "none" THEN s2.made[Len(s2.made)] ELSE None]

GetByNameReturn(t, r, ps) ==
    /\ task[t].pc = "wait" /\ task[t].op = "get_by_name"
    /\ r \in {<<>>} \cup
             {<<i>> : i \in NameMatches(task[t].cls, task[t].name, task[t].loc)}
    /\ ps \in Payloads(r)
    /\ LET c == task[t].cls
           out == GetByNameResult(Store(c), c, ps, task[t].loc)
       IN  Commit(t, c, out.st.cache, out.st.heap,
                  Finished(Answer(task[t], r, ps),
                           [out.st EXCEPT !.exc = out.exc], out.res, <<>>))

-----------------------------------------------------------------------------
(* cls(payload, client=client[, locale=locale]) called directly, as the    *)
(* proxies and the tag and online lookups do.  Only Title has localised    *)
(* names, so only Title is constructed with a locale.                      *)
Construct(t, c, i, loc, sh) ==
    /\ CanStart(t, c)
    /\ loc # NoLocale => c = Title
    /\ LET raw == Shaped(i, "live", sh)
           st == New(Store(c), c, raw, loc)
           rec == [Idle EXCEPT !.op = "new", !.cls = c, !.id = i, !.loc = loc,
                               !.pay = <<raw>>]
       IN  Commit(t, c, st.cache, st.heap,
                  Finished(rec, st,
                           IF st.exc = "none" THEN st.made[Len(st.made)]
                           ELSE None, <<>>))

(* An alter_cache that sets the new size and ttu and keeps the entries. *)
AlterCacheEffectKeepsEntries(c, sz, u) ==
    IF sz < 1
    THEN [exc |-> "ValueError", cache |-> cache[c], size |-> size[c],
          ttu |-> ttu[c]]
    ELSE [exc |-> "none", cache |-> cache[c], size |-> sz,
          ttu |-> IF u # NoTtu THEN u ELSE ttu[c]]

(* An alter_cache that clears the cache before it looks at the size. *)
AlterCacheEffectClearFirst(c, sz, u) ==
    IF sz < 1
    THEN [exc |-> "ValueError", cache |-> CacheClear(cache[c]),
          size |-> size[c], ttu |-> ttu[c]]
    ELSE [exc |-> "none", cache |-> CacheClear(cache[c]), size |-> sz,
          ttu |-> IF u # NoTtu THEN u ELSE ttu[c]]

(* Cached.alter_cache(size, ttu); ttu = NoTtu stands for ttu=None. *)
AlterCacheEffect(c, sz, u) ==
    IF sz < 1
    THEN [exc |-> "ValueError", cache |-> cache[c], size |-> size[c],
          ttu |-> ttu[c]]
    ELSE [exc |-> "none", cache |-> CacheClear(cache[c]), size |-> sz,
          ttu |-> IF u # NoTtu THEN u ELSE ttu[c]]

AlterCache(t, c, sz, u) ==
    /\ CanStart(t, c)
    /\ LET e == AlterCacheEffect(c, sz, u)
           rec == [Idle EXCEPT !.op = "alter_cache", !.cls = c, !.n = sz,
                               !.u = u, !.pc = "done", !.exc = e.exc,
                               !.kept = task[t].kept]
       IN  /\ cache' = [cache EXCEPT ![c] = e.cache]
           /\ size' = [size EXCEPT ![c] = e.size]
           /\ ttu' = [ttu EXCEPT ![c] = e.ttu]
           /\ task' = [task EXCEPT ![t] = rec]
           /\ heap' = Collect(heap, cache', task')
           /\ UNCHANGED <<fallback, now, used>>

-----------------------------------------------------------------------------
(* Character.get_online(id_, *args): one query for the ids given, with     *)
(* their number as limit and online_status resolved, then an entity for    *)
(* every raw object whose online_status is not zero.                       *)

(* The ids a caller passes: one or more, repetitions allowed. *)
IdLists == UNION {[1..k -> Ids] : k \in 1..MaxId}

(* The online_status values of raw objects, as the texts the API sends: 0  *)
(* for offline, else the id of the world the character is on.              *)
StatusTexts == {<<"0">>, <<"1">>, <<"1", "0">>}

Digit(ch) == IF ch = "1" THEN 1 ELSE 0

(* int(str(text)) *)
RECURSIVE ToInt(_)
ToInt(text) ==
    IF text = <<>> THEN 0
    ELSE 10 * ToInt(SubSeq(text, 1, Len(text) - 1)) + Digit(text[Len(text)])

(* The objects of the answer r the comprehension keeps: those whose        *)
(* online_status is true as a number.                                      *)
RECURSIVE OnlineOf(_, _)
OnlineOf(r, on) ==
    IF r = <<>> THEN <<>>
    ELSE IF ToInt(Head(on)) # 0 THEN <<Head(r)>> \o OnlineOf(Tail(r), Tail(on))
    ELSE OnlineOf(Tail(r), Tail(on))

GetOnlineCall(t, c, ids) ==
    /\ CanStart(t, c)
    /\ c = Character
    /\ Commit(t, c, cache[c], heap,
              [Call("get_online", c, 0, <<>>, NoLocale, Len(ids))
                  EXCEPT !.args = ids])

(* A get_online that builds an entity for every raw object and then drops  *)
(* the ones that are offline.                                              *)
GetOnlineReturnBuildsAll(t, r, on) ==
    /\ task[t].pc = "wait" /\ task[t].op = "get_online"
    /\ r \in Responses(task[t].n)
    /\ \A j \in 1..Len(r) : \E k \in 1..Len(task[t].args) : task[t].args[k] = r[j]
    /\ on \in [1..Len(r) -> StatusTexts]
    /\ LET c == task[t].cls
           st == BuildAll(Store(c), c, Raws(r))
           keep == {j \in 1..Len(r) : ToInt(on[j]) # 0}
           F[j \in 0..Len(r)] ==
               IF j = 0 THEN <<>>
               ELSE IF j \in keep THEN Append(F[j - 1], st.made[j])
               ELSE F[j - 1]
       IN  Commit(t, c, st.cache, st.heap,
                  Finished([Answer(task[t], r, Raws(r)) EXCEPT !.online = on],
                           st, None, F[Len(r)]))

GetOnlineReturn(t, r, on) ==
    /\ task[t].pc = "wait" /\ task[t].op = "get_online"
    /\ r \in Responses(task[t].n)
    /\ \A j \in 1..Len(r) : \E k \in 1..Len(task[t].args) : task[t].args[k] = r[j]
    /\ on \in [1..Len(r) -> StatusTexts]
    /\ LET c == task[t].cls
           st == BuildAll(Store(c), c, Raws(OnlineOf(r, on)))
       IN  Commit(t, c, st.cache, st.heap,
                  Finished([Answer(task[t], r, Raws(r)) EXCEPT !.online = on],
                           st, None, st.made))

-----------------------------------------------------------------------------
(* utils.nested_dict_get and utils.nested_dict_pop. *)

(* The deepest nesting of the dicts and the largest leaf. *)
MaxDepth == 3
MaxLeaf == 1
DictKeys == {<<"a">>, <<"b">>}

RECURSIVE Nodes(_)
Nodes(depth) ==
    {Leaf(n) : n \in 1..MaxLeaf}
    \cup IF depth = 0 THEN {}
         ELSE {Dict(f) : f \in UNION {[S -> Nodes(depth - 1)] :
                                          S \in SUBSET DictKeys}}

Dicts == {n \in Nodes(MaxDepth) : n.kind = "dict"}

RECURSIVE Join(_)
Join(ks) ==
    IF Len(ks) = 1 THEN ks[1] ELSE ks[1] \o <<".">> \o Join(Tail(ks))

(* The dotted keys a caller passes: up to MaxDepth keys joined by dots. *)
DottedKeys == {Join(ks) : ks \in UNION {[1..n -> DictKeys] : n \in 1..MaxDepth}}

(* key.split('.') *)
RECURSIVE Split(_)
Split(text) ==
    IF \E i \in 1..Len(text) : text[i] = "."
    THEN LET i == CHOOSE i \in 1..Len(text) :
                      text[i] = "." /\ \A j \in 1..(i - 1) : text[j] # "."
         IN  <<SubSeq(text, 1, i - 1)>> \o Split(SubSeq(text, i + 1, Len(text)))
    ELSE <<text>>

(* del dict_[k] *)
Without(f, k) == [x \in DOMAIN f \ {k} |-> f[x]]

(* dict_[k]: what it raises. *)
ItemError(node, k) ==
    IF node.kind # "dict" THEN "TypeError"
    ELSE IF k \notin DOMAIN node.items THEN "KeyError"
    ELSE "none"

(* nested_dict_get: the loop over nested_keys. *)
RECURSIVE GetLoop(_, _)
GetLoop(node, ks) ==
    IF ks = <<>> THEN [exc |-> "none", val |-> node]
    ELSE IF ItemError(node, Head(ks)) # "none"
    THEN [exc |-> ItemError(node, Head(ks)), val |-> NoNode]
    ELSE GetLoop(node.items[Head(ks)], Tail(ks))

nested_dict_get(d, key) == GetLoop(d, Split(key))

(* nested_pop(sub_, inner, *args), ks being inner and args: the value, and *)
(* sub_ as the call leaves it.                                             *)
RECURSIVE nested_pop(_, _)
nested_pop(sub, ks) ==
    IF ItemError(sub, Head(ks)) # "none"
    THEN [exc |-> ItemError(sub, Head(ks)), val |-> NoNode, dict |-> sub]
    ELSE IF Len(ks) = 1
    THEN [exc |-> "none", val |-> sub.items[Head(ks)],
          dict |-> Dict(Without(sub.items, Head(ks)))]
    ELSE LET r == nested_pop(sub.items[Head(ks)], Tail(ks))
         IN  IF r.exc # "none" THEN [r EXCEPT !.dict = sub]
             ELSE IF r.dict.items = NoItems
             THEN [r EXCEPT !.dict = Dict(Without(sub.items, Head(ks)))]
             ELSE [r EXCEPT !.dict =
                      Dict([sub.items EXCEPT ![Head(ks)] = r.dict])]

(* A nested_dict_pop that leaves the outer key in place when its dict has  *)
(* become empty.                                                           *)
nested_dict_pop_keeps_outer(d, key) ==
    LET ks == Split(key)
    IN  IF Len(ks) = 1
        THEN IF ItemError(d, ks[1]) # "none"
             THEN [exc |-> ItemError(d, ks[1]), val |-> NoNode, dict |-> d]
             ELSE [exc |-> "none", val |-> d.items[ks[1]],
                   dict |-> Dict(Without(d.items, ks[1]))]
        ELSE IF ItemError(d, ks[1]) # "none"
        THEN [exc |-> ItemError(d, ks[1]), val |-> NoNode, dict |-> d]
        ELSE LET r == nested_pop(d.items[ks[1]], Tail(ks))
             IN  IF r.exc # "none" THEN [r EXCEPT !.dict = d]
                 ELSE [r EXCEPT !.dict = Dict([d.items EXCEPT ![ks[1]] = r.dict])]

(* nested_dict_pop: outer, *inner = key.split('.'), the pop of outer when  *)
(* there is no inner, else nested_pop and the del of an emptied outer.     *)
nested_dict_pop(d, key) ==
    LET ks == Split(key)
    IN  IF Len(ks) = 1
        THEN IF ItemError(d, ks[1]) # "none"
             THEN [exc |-> ItemError(d, ks[1]), val |-> NoNode, dict |-> d]
             ELSE [exc |-> "none", val |-> d.items[ks[1]],
                   dict |-> Dict(Without(d.items, ks[1]))]
        ELSE IF ItemError(d, ks[1]) # "none"
        THEN [exc |-> ItemError(d, ks[1]), val |-> NoNode, dict |-> d]
        ELSE LET r == nested_pop(d.items[ks[1]], Tail(ks))
             IN  IF r.exc # "none" THEN [r EXCEPT !.dict = d]
                 ELSE IF r.dict.items = NoItems
                 THEN [r EXCEPT !.dict = Dict(Without(d.items, ks[1]))]
                 ELSE [r EXCEPT !.dict =
                          Dict([d.items EXCEPT ![ks[1]] = r.dict])]

(* The caller applies nested_dict_get to the dict and the key it has. *)
CallNestedDictGet(t) ==
    /\ task[t].pc = "idle" /\ task[t].dict # NoNode
    /\ LET r == nested_dict_get(task[t].dict, task[t].key)
       IN  task' = [task EXCEPT ![t].pc = "done",
                                ![t].op = "nested_dict_get",
                                ![t].exc = r.exc,
                                ![t].out = r.val]
    /\ UNCHANGED <<cache, size, ttu, fallback, heap, now, used>>

(* The caller applies nested_dict_pop, at once or after the get. *)
CallNestedDictPop(t) ==
    /\ task[t].dict # NoNode
    /\ task[t].op \in {"none", "nested_dict_get"}
    /\ LET r == nested_dict_pop(task[t].dict, task[t].key)
       IN  task' = [task EXCEPT ![t].pc = "done",
                                ![t].op = "nested_dict_pop",
                                ![t].exc = r.exc,
                                ![t].out = r.val,
                                ![t].dict = r.dict]
    /\ UNCHANGED <<cache, size, ttu, fallback, heap, now, used>>

-----------------------------------------------------------------------------
(* Ps2Object.count: the request with verb='count', then int(result['count']) *)
(* with a missing key or a value int() rejects turned into a PayloadError. *)

(* What the executor can answer to a count: the key "count" may be missing *)
(* and its value may be a number, a text that is no number, or null.       *)
CountAnswers ==
    {[key |-> TRUE, kind |-> "number", val |-> k] : k \in 0..MaxId}
    \cup {[key |-> FALSE, kind |-> "none", val |-> 0],
          [key |-> TRUE, kind |-> "text", val |-> 0],
          [key |-> TRUE, kind |-> "null", val |-> 0]}

CountCall(t, c) ==
    /\ CanStart(t, c)
    /\ Commit(t, c, cache[c], heap, Call("count", c, 0, <<>>, NoLocale, 0))

(* int(result['count']): KeyError and ValueError become PayloadError; the  *)
(* TypeError int() raises for None is not caught.                          *)
CountResult(a) ==
    IF ~a.key THEN [exc |-> "PayloadError", n |-> 0]
    ELSE IF a.kind = "text" THEN [exc |-> "PayloadError", n |-> 0]
    ELSE IF a.kind = "null" THEN [exc |-> "TypeError", n |-> 0]
    ELSE [exc |-> "none", n |-> a.val]

CountReturn(t, a) ==
    /\ task[t].pc = "wait" /\ task[t].op = "count"
    /\ LET c == task[t].cls
           out == CountResult(a)
           rec == [task[t] EXCEPT !.ans = a]
       IN  Commit(t, c, cache[c], heap,
                  IF out.exc = "none"
                  THEN [Returned(rec, None, <<>>) EXCEPT !.n = out.n]
                  ELSE Raised(rec, out.exc))

-----------------------------------------------------------------------------
(* The await of client.request ends with an exception instead of an        *)
(* answer.  No method of base.py or of the entity types has a handler      *)
(* around that await, so the exception leaves the method there.            *)

(* A request that, having failed, is answered from the fallback table. *)
RequestFailsThenFallback(t, e) ==
    /\ task[t].pc = "wait"
    /\ LET c == task[t].cls
           out == IF task[t].op = "get_by_id"
                  THEN GetByIdResult(Store(c), c, task[t].id)
                  ELSE [st |-> Store(c), res |-> None]
       IN  Commit(t, c, out.st.cache, out.st.heap,
                  [Raised(task[t], e) EXCEPT !.res = out.res])

(* The executor raises a transport error, or the task is cancelled while   *)
(* it waits (asyncio raises CancelledError at the await).                  *)
RequestFails(t, e) ==
    /\ task[t].pc = "wait"
    /\ Commit(t, task[t].cls, cache[task[t].cls], heap, Raised(task[t], e))

TransportError(t) == RequestFails(t, "TransportError")

(* A cancellation that takes effect only once the answer has been built    *)
(* into entities.                                                          *)
CancelTooLate(t) ==
    /\ task[t].pc = "wait"
    /\ LET c == task[t].cls
           st == BuildAll(Store(c), c, Raws(<<CHOOSE i \in Ids : TRUE>>))
       IN  Commit(t, c, st.cache, st.heap, Raised(task[t], "CancelledError"))

Cancel(t) == RequestFails(t, "CancelledError")

(* The caller drops the references the finished call gave it. *)
Release(t) ==
    /\ task[t].pc = "done"
    /\ task' = [task EXCEPT ![t] = [Idle EXCEPT !.kept = task[t].kept]]
    /\ heap' = Collect(heap, cache, task')
    /\ UNCHANGED <<cache, size, ttu, fallback, now, used>>

(* The results of the gathered lookups are dropped together, once no      *)
(* lookup is waiting any more.                                             *)
ReleaseAll ==
    /\ \A t \in Gathered : task[t].pc # "wait"
    /\ \E t \in Gathered : task[t].pc = "done"
    /\ task' = [t \in Gathered |-> [Idle EXCEPT !.kept = task[t].kept]]
    /\ heap' = Collect(heap, cache, task')
    /\ UNCHANGED <<cache, size, ttu, fallback, now, used>>

(* Time passes. *)
Tick ==
    /\ now < MaxTime
    /\ now' = now + 1
    /\ UNCHANGED <<cache, size, ttu, fallback, heap, task, used>>

-----------------------------------------------------------------------------
(* Lazy proxies.  The methods that hand them out are in the source; what a *)
(* proxy does when it is resolved follows section 4.5 of the               *)
(* specification.                                                          *)

(* The largest number of resolutions of one proxy. *)
MaxResolve == 2

(* Character.title, OutfitMember.character, Outfit.leader: an              *)
(* InstanceProxy on a query for one id; Outfit.members: a SequenceProxy on *)
(* a query with a limit, here MaxFind for the 5000 of the source.          *)
ProxyMethods ==
    {[owner |-> Character, name |-> "title", kind |-> "instance",
      cls |-> Title, limit |-> 1],
     [owner |-> OutfitMember, name |-> "character", kind |-> "instance",
      cls |-> Character, limit |-> 1],
     [owner |-> Outfit, name |-> "leader", kind |-> "instance",
      cls |-> OutfitMember, limit |-> 1],
     [owner |-> Outfit, name |-> "members", kind |-> "sequence",
      cls |-> OutfitMember, limit |-> MaxFind]}

(* A method that sends its query at once instead of handing out a proxy. *)
MakeProxyEager(t, m) ==
    /\ task[t].pc = "done" /\ task[t].exc = "none"
    /\ task[t].res # None
    /\ heap[task[t].res].cls = m.owner
    /\ task[t].proxy = NoProxy
    /\ m.cls \in used
    /\ task' = [task EXCEPT ![t] =
                   [Call("resolve", m.cls, 0, <<>>, NoLocale, m.limit)
                       EXCEPT !.kept = task[t].kept,
                              !.proxy = [NoProxy EXCEPT !.kind = m.kind,
                                                        !.cls = m.cls,
                                                        !.limit = m.limit,
                                                        !.requests = 1]]]
    /\ heap' = Collect(heap, cache, task')
    /\ UNCHANGED <<cache, size, ttu, fallback, now, used>>

(* entity.title() and the like: the query is built from the data of the    *)
(* entity and wrapped, with the target type, into a proxy.                 *)
MakeProxy(t, m) ==
    /\ task[t].pc = "done" /\ task[t].exc = "none"
    /\ task[t].res # None
    /\ heap[task[t].res].cls = m.owner
    /\ task[t].proxy = NoProxy
    /\ m.cls \in used
    /\ task' = [task EXCEPT ![t].proxy =
                   [NoProxy EXCEPT !.kind = m.kind, !.cls = m.cls,
                                   !.limit = m.limit]]
    /\ UNCHANGED <<cache, size, ttu, fallback, heap, now, used>>

(* A proxy that remembers what its first resolution returned. *)
ResolveProxyMemoized(t) ==
    /\ task[t].pc = "done"
    /\ task[t].proxy # NoProxy
    /\ task[t].proxy.resolved < MaxResolve
    /\ LET p == task[t].proxy
           rec == [Call("resolve", p.cls, 0, <<>>, NoLocale, p.limit)
                      EXCEPT !.proxy = [p EXCEPT !.resolved = @ + 1,
                                                 !.requests = @ + 1]]
       IN  IF p.resolved = 0
           THEN Commit(t, p.cls, cache[p.cls], heap, rec)
           ELSE Commit(t, p.cls, cache[p.cls], heap,
                       [task[t] EXCEPT !.proxy.resolved = @ + 1,
                                       !.calls = 0])

(* The caller resolves the proxy it holds: the query goes to the executor. *)
ResolveProxy(t) ==
    /\ task[t].pc = "done"
    /\ task[t].proxy # NoProxy
    /\ task[t].proxy.resolved < MaxResolve
    /\ LET p == task[t].proxy
           rec == [Call("resolve", p.cls, 0, <<>>, NoLocale, p.limit)
                      EXCEPT !.proxy = [p EXCEPT !.resolved = @ + 1,
                                                 !.requests = @ + 1]]
       IN  Commit(t, p.cls, cache[p.cls], heap, rec)

RECURSIVE Reverse(_)
Reverse(q) == IF q = <<>> THEN <<>> ELSE Append(Reverse(Tail(q)), Head(q))

(* A resolution that hands out its entities last to first. *)
ProxyReturnReversed(t, r, ps) ==
    /\ task[t].pc = "wait" /\ task[t].op = "resolve"
    /\ r \in Responses(task[t].n)
    /\ ps \in Payloads(r)
    /\ LET c == task[t].cls
           st == BuildAll(Store(c), c, ps)
       IN  Commit(t, c, st.cache, st.heap,
                  IF task[t].proxy.kind = "instance"
                  THEN Finished(Answer(task[t], r, ps), st,
                                IF st.made = <<>> THEN None ELSE st.made[1],
                                <<>>)
                  ELSE Finished(Answer(task[t], r, ps), st, None,
                                Reverse(st.made)))

(* The executor has answered: every raw object of the answer is built into *)
(* an entity of the target type, in the order of the answer.  An           *)
(* InstanceProxy returns the entity, or None for an empty answer; a        *)
(* SequenceProxy returns the list.                                         *)
ProxyReturn(t, r, ps) ==
    /\ task[t].pc = "wait" /\ task[t].op = "resolve"
    /\ r \in Responses(task[t].n)
    /\ ps \in Payloads(r)
    /\ LET c == task[t].cls
           st == BuildAll(Store(c), c, ps)
       IN  Commit(t, c, st.cache, st.heap,
                  IF task[t].proxy.kind = "instance"
                  THEN Finished(Answer(task[t], r, ps), st,
                                IF st.made = <<>> THEN None ELSE st.made[1],
                                <<>>)
                  ELSE Finished(Answer(task[t], r, ps), st, None, st.made))

-----------------------------------------------------------------------------
(* What a caller does with the entities it was given. *)

(* The caller holds on to the entity a call returned. *)
Keep(t) ==
    /\ task[t].pc = "done" /\ task[t].exc = "none"
    /\ task[t].res # None /\ task[t].kept # task[t].res
    /\ ~task[t].cmp.done
    /\ task' = [task EXCEPT ![t].kept = task[t].res]
    /\ heap' = Collect(heap, cache, task')
    /\ UNCHANGED <<cache, size, ttu, fallback, now, used>>

(* Ps2Object.__eq__(a, b): isinstance(b, a.__class__), then the ids. *)
Eq(a, b) == a.cls \in Bases(b.cls) /\ a.id = b.id

(* Ps2Object.__hash__: hash((self.__class__, self.id)) *)
Hash(a) == <<a.cls, a.id>>

(* The caller compares the entity it kept with the one it was given last.  *)
Compare(t) ==
    /\ task[t].pc = "done"
    /\ task[t].res # None /\ task[t].kept # None
    /\ ~task[t].cmp.done
    /\ LET a == heap[task[t].kept]
           b == heap[task[t].res]
       IN  task' = [task EXCEPT ![t].cmp =
                       [done |-> TRUE, ab |-> Eq(a, b), ba |-> Eq(b, a),
                        hash |-> Hash(a) = Hash(b)]]
    /\ UNCHANGED <<cache, size, ttu, fallback, heap, now, used>>

-----------------------------------------------------------------------------
Init ==
    /\ cache = [c \in Types |-> <<>>]
    /\ size \in [Types -> 1..MaxSize]
    /\ ttu \in [Types -> 0..MaxTtu]
    /\ fallback \in [Types -> {NoTable, Table(FallbackIds)}]
    /\ heap = [n \in Instances |-> NoObj]
    /\ now = 0
    /\ task = [t \in Gathered |-> Idle]
    /\ used \in {{c} : c \in LookupTypes}
    /\ \A c \in Types \ used :
          size[c] = 1 /\ ttu[c] = 0 /\ fallback[c] = NoTable

Next ==
    \/ \E t \in Tasks, c \in Types, i \in Ids : GetByIdCall(t, c, i)
    \/ \E t \in Tasks, r \in Responses(1) : GetByIdReturn(t, r, Raws(r))
    \/ \E t \in Tasks, c \in Types, name \in LookupNames, loc \in Locales :
          GetByNameCall(t, c, name, loc)
    \/ \E t \in Tasks, r \in Responses(1) : GetByNameReturn(t, r, Raws(r))
    \/ \E t \in Tasks, c \in Types, n \in 1..MaxFind : FindCall(t, c, n)
    \/ \E t \in Tasks, r \in Responses(MaxFind) : FindReturn(t, r, Raws(r))
    \/ \E t \in Tasks, c \in Types : GetCall(t, c)
    \/ \E t \in Tasks, r \in Responses(1) : GetReturn(t, r, Raws(r))
    \/ \E t \in Tasks, c \in Types : CountCall(t, c)
    \/ \E t \in Tasks, a \in CountAnswers : CountReturn(t, a)
    \/ \E t \in Tasks : TransportError(t)
    \/ \E t \in Tasks : Cancel(t)
    \/ \E t \in Tasks, c \in Types, i \in Ids,
          loc \in Locales \cup {NoLocale} : Construct(t, c, i, loc, OkShape)
    \/ \E t \in Tasks, c \in Types, sz \in 0..MaxSize,
          u \in {NoTtu} \cup MinTtu..MaxTtu : AlterCache(t, c, sz, u)
    \/ \E t \in Tasks : Release(t)

(* Every lookup and search, with the clock standing still. *)
Spec == Init /\ [][Next]_vars

(* The lookups by id, direct construction and the passing of time, over    *)
(* one more id than the largest cache can hold.                            *)
NextTime ==
    \/ \E t \in Tasks, c \in Types, i \in TimeIds : GetByIdCall(t, c, i)
    \/ \E t \in Tasks, r \in {<<>>} \cup {<<i>> : i \in TimeIds} :
          GetByIdReturn(t, r, Raws(r))
    \/ \E t \in Tasks, c \in Types, i \in TimeIds,
          loc \in Locales \cup {NoLocale} : Construct(t, c, i, loc, OkShape)
    \/ \E t \in Tasks : Release(t)
    \/ Tick

SpecTime == Init /\ [][NextTime]_vars

(* The lookup by id, the bulk search and direct construction over payloads *)
(* of every shape and over a locale the data does not have, the cache      *)
(* configuration staying as declared.                                      *)
NextPayload ==
    \/ \E t \in Tasks, c \in Types, i \in Ids : GetByIdCall(t, c, i)
    \/ \E t \in Tasks, r \in Responses(1) : \E ps \in Payloads(r) :
          GetByIdReturn(t, r, ps)
    \/ \E t \in Tasks, c \in Types, n \in 1..MaxFind : FindCall(t, c, n)
    \/ \E t \in Tasks, r \in Responses(MaxFind) : \E ps \in Payloads(r) :
          FindReturn(t, r, ps)
    \/ \E t \in Tasks, c \in Types, i \in Ids,
          loc \in Locales \cup {NoLocale, BadLocale}, sh \in Shapes :
          Construct(t, c, i, loc, sh)
    \/ \E t \in Tasks : Release(t)

SpecPayload == Init /\ [][NextPayload]_vars

(* The caches as declared, with no fallback tables, for the types in u. *)
InitWith(u) ==
    /\ cache = [c \in Types |-> <<>>]
    /\ size \in [Types -> 1..MaxSize]
    /\ ttu = [c \in Types |-> IF c \in u THEN MaxTtu ELSE 0]
    /\ fallback = [c \in Types |-> NoTable]
    /\ heap = [n \in Instances |-> NoObj]
    /\ now = 0
    /\ task = [t \in Gathered |-> Idle]
    /\ used = u
    /\ \A c \in Types \ used : size[c] = 1

(* An entity and the proxies its methods hand out, resolved up to          *)
(* MaxResolve times each.                                                  *)
InitProxy ==
    \E u \in {{Character, Title}, {OutfitMember, Character},
              {Outfit, OutfitMember}} : InitWith(u)

NextProxy ==
    \/ \E t \in Tasks, c \in Types, i \in Ids :
          Construct(t, c, i, NoLocale, OkShape)
    \/ \E t \in Tasks, m \in ProxyMethods : MakeProxy(t, m)
    \/ \E t \in Tasks : ResolveProxy(t)
    \/ \E t \in Tasks, r \in Responses(MaxFind) : ProxyReturn(t, r, Raws(r))
    \/ \E t \in Tasks : TransportError(t)
    \/ \E t \in Tasks : Release(t)

SpecProxy == InitProxy /\ [][NextProxy]_vars

(* A caller that holds on to an entity while lookups, constructions,       *)
(* reconfigurations and the passing of time go on.                         *)
NextHold ==
    \/ \E t \in Tasks, c \in Types, i \in Ids : GetByIdCall(t, c, i)
    \/ \E t \in Tasks, r \in Responses(1) : GetByIdReturn(t, r, Raws(r))
    \/ \E t \in Tasks, c \in Types, i \in Ids :
          Construct(t, c, i, NoLocale, OkShape)
    \/ \E t \in Tasks, c \in Types, sz \in 1..MaxSize,
          u \in {NoTtu} \cup 0..MaxTtu : AlterCache(t, c, sz, u)
    \/ \E t \in Tasks : Keep(t)
    \/ \E t \in Tasks : Release(t)
    \/ Tick

SpecHold == (\E c \in LookupTypes : InitWith({c})) /\ [][NextHold]_vars

(* Entities of a class and of a class derived from it, compared with each  *)
(* other; each of the two caches holds one entry.                          *)
InitIdentity ==
    /\ InitWith({Character, CharacterSubclass})
    /\ \A c \in Types : size[c] = 1

NextIdentity ==
    \/ \E t \in Tasks, c \in Types, i \in Ids :
          Construct(t, c, i, NoLocale, OkShape)
    \/ \E t \in Tasks : Keep(t)
    \/ \E t \in Tasks : Compare(t)
    \/ \E t \in Tasks : Release(t)

SpecIdentity == InitIdentity /\ [][NextIdentity]_vars

(* The executor ends the request task t waits for: with an answer or with  *)
(* an exception.                                                           *)
ExecutorEnds(t) ==
    \/ \E r \in Responses(1) : GetByIdReturn(t, r, Raws(r))
    \/ \E r \in Responses(1) : GetByNameReturn(t, r, Raws(r))
    \/ TransportError(t)

NextLookup ==
    \/ \E t \in Tasks, c \in Types, i \in Ids : GetByIdCall(t, c, i)
    \/ \E t \in Tasks, c \in Types, name \in LookupNames, loc \in Locales :
          GetByNameCall(t, c, name, loc)
    \/ \E t \in Tasks : ExecutorEnds(t)
    \/ \E t \in Tasks : Release(t)

(* The lookups by id and by name under an executor that ends every request *)
(* it was handed.                                                          *)
SpecLookup ==
    Init /\ [][NextLookup]_vars /\ \A t \in Tasks : WF_vars(ExecutorEnds(t))

(* A get_by_id and its repetition over remote data that stays as it is. *)
NextRepeat ==
    \/ \E t \in Tasks, c \in Types, i \in Ids : GetByIdCall(t, c, i)
    \/ \E t \in Tasks : GetByIdAgain(t)
    \/ \E t \in Tasks, r \in Responses(1) : GetByIdReturnSame(t, r, Raws(r))
    \/ \E t \in Tasks, c \in Types, i \in Ids :
          Construct(t, c, i, NoLocale, OkShape)
    \/ \E t \in Tasks : Release(t)

SpecRepeat == Init /\ [][NextRepeat]_vars

(* Two tasks that look up by id side by side, as asyncio.gather runs them. *)
NextRace ==
    \/ \E t \in Gathered, c \in Types, i \in Ids : GetByIdCall(t, c, i)
    \/ \E t \in Gathered, r \in Responses(1) : GetByIdReturn(t, r, Raws(r))
    \/ ReleaseAll

SpecRace == Init /\ [][NextRace]_vars

(* Character and OutfitMember, both keyed by character_id, used side by    *)
(* side, each with a cache for one entry.                                  *)
InitTypes ==
    /\ InitWith({Character, OutfitMember})
    /\ \A c \in Types : size[c] = 1

NextTypes ==
    \/ \E t \in Tasks, c \in Types, i \in Ids : GetByIdCall(t, c, i)
    \/ \E t \in Tasks, r \in Responses(1) : GetByIdReturn(t, r, Raws(r))
    \/ \E t \in Tasks, c \in Types, i \in Ids :
          Construct(t, c, i, NoLocale, OkShape)
    \/ \E t \in Tasks, c \in Types, u \in {NoTtu, 0} : AlterCache(t, c, 1, u)
    \/ \E t \in Tasks : Release(t)
    \/ Tick

SpecTypes == InitTypes /\ [][NextTypes]_vars

(* Character.get_online next to the lookup by id on the same cache. *)
NextOnline ==
    \/ \E t \in Tasks, ids \in IdLists : GetOnlineCall(t, Character, ids)
    \/ \E t \in Tasks, r \in Responses(MaxId) :
          \E on \in [1..Len(r) -> StatusTexts] : GetOnlineReturn(t, r, on)
    \/ \E t \in Tasks, i \in Ids : GetByIdCall(t, Character, i)
    \/ \E t \in Tasks, r \in Responses(1) : GetByIdReturn(t, r, Raws(r))
    \/ \E t \in Tasks : TransportError(t)
    \/ \E t \in Tasks : Release(t)

SpecOnline == InitWith({Character}) /\ [][NextOnline]_vars

(* The functions of utils.py over every dict of up to MaxDepth levels and  *)
(* every dotted key of up to MaxDepth parts; no entity type is in use.     *)
InitUtils ==
    /\ cache = [c \in Types |-> <<>>]
    /\ size = [c \in Types |-> 1]
    /\ ttu = [c \in Types |-> 0]
    /\ fallback = [c \in Types |-> NoTable]
    /\ heap = [n \in Instances |-> NoObj]
    /\ now = 0
    /\ used = {}
    /\ \E d \in Dicts, k \in DottedKeys :
          task = [t \in Gathered |->
                     IF t \in Tasks THEN [Idle EXCEPT !.dict = d, !.key = k]
                     ELSE Idle]

NextUtils ==
    \/ \E t \in Tasks : CallNestedDictGet(t)
    \/ \E t \in Tasks : CallNestedDictPop(t)

SpecUtils == InitUtils /\ [][NextUtils]_vars

TypeOK ==
    /\ \A c \in Types : Len(cache[c]) <= MaxSize
    /\ now \in 0..MaxTime

-----------------------------------------------------------------------------
(* Properties *)

CallStep(t, op) ==
    task[t].pc = "idle" /\ task'[t].pc # "idle" /\ task'[t].op = op

ReturnStep(t, op) ==
    task[t].pc = "wait" /\ task[t].op = op /\ task'[t].pc = "done"

Done(t, op) == task[t].pc = "done" /\ task[t].op = op

(* The entry of type c stored under key that a get at this moment would    *)
(* find alive, or 0.                                                       *)
LiveIndex(c, key) ==
    LET j == KeyIndex(cache[c], key)
    IN  IF j # 0 /\ ~Expired(cache[c][j], now, ttu[c]) THEN j ELSE 0

(* C1: whenever the cache of a type holds an entry for id X that has not   *)
(* expired, mapping X to instance E, get_by_id(X) returns that very        *)
(* instance E, unchanged, and hands no request to the executor.            *)
C1_HitReturnsSameInstance ==
    [][\A t \in Tasks :
        CallStep(t, "get_by_id") =>
            LET c == task'[t].cls
                j == LiveIndex(c, IdKey(task'[t].id))
            IN  j # 0 =>
                    /\ task'[t].pc = "done"
                    /\ task'[t].res = cache[c][j].val
                    /\ task'[t].calls = 0
                    /\ heap'[task'[t].res] = heap[cache[c][j].val]]_vars

(* A get_by_id answered from the cache some time after the entry was made. *)
C1_Witness ==
    \E t \in Tasks :
        /\ Done(t, "get_by_id") /\ task[t].calls = 0 /\ task[t].res # None
        /\ \E j \in 1..Len(cache[task[t].cls]) :
              /\ cache[task[t].cls][j].val = task[t].res
              /\ cache[task[t].cls][j].ins < now

(* The executor raised, or the call was cancelled, instead of an answer. *)
ExecutorFailed(rec) == rec.exc \in {"TransportError", "CancelledError"}

(* C2: a get_by_id that missed the cache and got a nonempty answer from    *)
(* the executor, no constructor raising, returns the entity built from the *)
(* live payload.                                                           *)
C2_LiveResultWins ==
    \A t \in Tasks :
        (/\ Done(t, "get_by_id") /\ task[t].calls = 1
         /\ task[t].resp # <<>> /\ task[t].exc = "none") =>
            /\ task[t].res # None
            /\ heap[task[t].res].src = "live"
            /\ heap[task[t].res].id = task[t].id

(* C3: a get_by_id that missed the cache, got an empty answer and whose    *)
(* type has a fallback entry for the id returns an entity built from the   *)
(* fallback payload, and the cache check of a get_by_id that follows at    *)
(* once finds that same instance.                                          *)
C3_FallbackOnLiveMiss ==
    \A t \in Tasks :
        LET c == task[t].cls
        IN  (/\ Done(t, "get_by_id") /\ task[t].calls = 1
             /\ task[t].resp = <<>> /\ ~ExecutorFailed(task[t])
             /\ fallback[c].has /\ task[t].id \in fallback[c].ids) =>
                /\ task[t].res # None
                /\ heap[task[t].res] =
                      [cls |-> c, id |-> task[t].id, src |-> "fallback"]
                /\ CheckCache(c, IdKey(task[t].id)).val = task[t].res

C3_Witness ==
    \E t \in Tasks :
        /\ Done(t, "get_by_id") /\ task[t].calls = 1 /\ task[t].resp = <<>>
        /\ task[t].res # None
        /\ heap[task[t].res].src = "fallback"
        /\ Len(cache[task[t].cls]) = size[task[t].cls]

(* C4: a get_by_id whose live answer is empty and whose type has no        *)
(* fallback entry for the id, a get_by_name whose answer is empty and a    *)
(* get whose answer is empty return None, raise nothing and leave the      *)
(* cache as it was.                                                        *)
C4_AbsenceIsNone ==
    [][\A t \in Tasks :
        LET c == task[t].cls
        IN  (/\ \/ ReturnStep(t, "get_by_name")
                \/ ReturnStep(t, "get")
                \/ /\ ReturnStep(t, "get_by_id")
                   /\ ~(fallback[c].has /\ task[t].id \in fallback[c].ids)
             /\ task'[t].resp = <<>> /\ ~ExecutorFailed(task'[t])) =>
                /\ task'[t].res = None
                /\ task'[t].exc = "none"
                /\ cache'[c] = cache[c]]_vars

C4_Witness ==
    \E t \in Tasks :
        /\ Done(t, "get_by_name") /\ task[t].calls = 1 /\ task[t].resp = <<>>
        /\ task[t].res = None /\ task[t].exc = "none"
        /\ cache[task[t].cls] # <<>>

(* C5: once get_by_name(n1, locale) has returned instance E, the cache     *)
(* check of a get_by_name(n2, locale) that follows at once, for any n2     *)
(* equal to n1 up to letter case, finds that same instance E.              *)
C5_NameLookupIgnoresCase ==
    \A t \in Tasks :
        (Done(t, "get_by_name") /\ task[t].res # None) =>
            \A n2 \in LookupNames :
                Lower(n2) = Lower(task[t].name) =>
                    CheckCache(task[t].cls,
                               LookupKey(task[t].cls, n2, task[t].loc)).val
                        = task[t].res

(* C6: once get_by_name(name, locale) has returned an instance, the cache  *)
(* holds it under its id and under locale_lowercase(name), so that the     *)
(* cache check of a get_by_id(instance.id) that follows at once finds it.  *)
C6_NameLookupCachesIdAndName ==
    \A t \in Tasks :
        LET c == task[t].cls
            E == task[t].res
        IN  (Done(t, "get_by_name") /\ E # None /\ size[c] >= 1) =>
                /\ CheckCache(c, IdKey(heap[E].id)).val = E
                /\ CheckCache(c, NameKey(task[t].loc,
                                         NameOf(heap[E], task[t].loc))).val = E

(* C7: all entries of a type's cache that refer to entities with the same  *)
(* id refer to one and the same instance.                                  *)
C7_OneInstancePerId ==
    \A c \in Types :
        \A j, k \in 1..Len(cache[c]) :
            heap[cache[c][j].val].id = heap[cache[c][k].val].id =>
                cache[c][j].val = cache[c][k].val

(* C8: the cache of every type holds at most as many entries as its        *)
(* current size.                                                           *)
C8_CacheWithinBound ==
    \A c \in Types : Len(cache[c]) <= size[c]

(* A bulk search that built more entities than the cache can hold. *)
C8_Witness ==
    \E t \in Tasks :
        /\ Done(t, "find")
        /\ Len(task[t].list) > size[task[t].cls]
        /\ Len(cache[task[t].cls]) = size[task[t].cls]

(* A step in which the call of task t builds exactly one entity, without a *)
(* locale: one add to the cache, under the id.                             *)
AddOneStep(t) ==
    \/ /\ task[t].pc = "idle" /\ task'[t].pc = "done"
       /\ task'[t].op = "new" /\ task'[t].loc = NoLocale
    \/ ReturnStep(t, "get_by_id") /\ task'[t].res # None

(* A step in which get_by_id is answered from the cache. *)
HitStep(t) == CallStep(t, "get_by_id") /\ task'[t].pc = "done"

Before(q, a, b) == KeyIndex(q, a) < KeyIndex(q, b)

(* C9: an add that finds the cache full evicts exactly one entry, the      *)
(* least recently used one; an add that does not overflow evicts nothing;  *)
(* every add and every successful get makes its key the most recently used *)
(* one and leaves the order of the other keys alone.                       *)
C9_EvictsLeastRecentlyUsed ==
    [][\A t \in Tasks :
        LET c == task'[t].cls
            q == cache[c]
            q2 == cache'[c]
            key == IdKey(task'[t].id)
        IN  /\ AddOneStep(t) =>
                  IF key \notin Keys(q) /\ Len(q) = size[c]
                  THEN Keys(q2) = (Keys(q) \ {q[1].key}) \cup {key}
                  ELSE Keys(q2) = Keys(q) \cup {key}
            /\ (AddOneStep(t) \/ HitStep(t)) =>
                  /\ q2[Len(q2)].key = key
                  /\ q2[Len(q2)].val = task'[t].res
                  /\ Len(q2) = Cardinality(Keys(q2))
                  /\ \A a, b \in Keys(q2) \ {key} :
                        Before(q2, a, b) <=> Before(q, a, b)]_vars

(* The cache of size 2 after add(1), add(2), get(1), add(3): the entity    *)
(* with id 3 is the third instance alive, so the cache was full when it    *)
(* was built, and the entry of id 1 outlived the one added after it.       *)
C9_Witness ==
    \E t \in Tasks :
        LET c == task[t].cls
        IN  /\ Done(t, "new") /\ task[t].id = 3
            /\ size[c] = 2
            /\ Len(cache[c]) = 2
            /\ cache[c][1].key = IdKey(1) /\ cache[c][1].val = 1
            /\ cache[c][2].key = IdKey(3) /\ cache[c][2].val = 3

(* C10: the age of an entry counts from its insertion.  A get_by_id that   *)
(* finds an entry older than a positive ttu misses, removes the entry and  *)
(* goes to the executor; any other get_by_id that finds an entry returns   *)
(* it and leaves its insertion time as it was, so with ttu = 0 no entry    *)
(* expires; an add stamps the entry with the current time.                 *)
C10_ExpiryFromInsertion ==
    [][\A t \in Tasks :
        LET c == task'[t].cls
            key == IdKey(task'[t].id)
            j == KeyIndex(cache[c], key)
            j2 == KeyIndex(cache'[c], key)
        IN  /\ (CallStep(t, "get_by_id") /\ j # 0) =>
                  IF ttu[c] > 0 /\ now - cache[c][j].ins > ttu[c]
                  THEN /\ task'[t].pc = "wait" /\ task'[t].calls = 1
                       /\ j2 = 0
                  ELSE /\ task'[t].pc = "done"
                       /\ task'[t].res = cache[c][j].val
                       /\ j2 # 0
                       /\ cache'[c][j2].ins = cache[c][j].ins
            /\ AddOneStep(t) => (j2 # 0 /\ cache'[c][j2].ins = now)]_vars

(* A get_by_id that met an expired entry and now waits for the executor. *)
C10_Witness ==
    \E t \in Tasks :
        /\ task[t].pc = "wait" /\ task[t].op = "get_by_id"
        /\ task[t].expired
        /\ ttu[task[t].cls] > 0
        /\ KeyIndex(cache[task[t].cls], IdKey(task[t].id)) = 0

-----------------------------------------------------------------------------
(* A step that is a whole call of alter_cache by task t. *)
AlterStep(t) ==
    task[t].pc = "idle" /\ task'[t].pc = "done" /\ task'[t].op = "alter_cache"

(* C11: alter_cache with a size below 1 raises ValueError and leaves the   *)
(* size, the ttu and the entries of the cache as they were.                *)
C11_InvalidSizeRejected ==
    [][\A t \in Tasks :
        (AlterStep(t) /\ task'[t].n < 1) =>
            /\ task'[t].exc = "ValueError"
            /\ cache' = cache /\ size' = size /\ ttu' = ttu]_vars

(* A rejected alter_cache that asked for another ttu too, on a cache that  *)
(* holds entries.                                                          *)
C11_Witness ==
    \E t \in Tasks :
        /\ Done(t, "alter_cache") /\ task[t].n < 1
        /\ task[t].exc = "ValueError"
        /\ task[t].u # NoTtu /\ task[t].u # ttu[task[t].cls]
        /\ cache[task[t].cls] # <<>>

(* The k most recently used entries of q. *)
MostRecent(q, k) == SubSeq(q, Len(q) - k + 1, Len(q))

Min(a, b) == IF a < b THEN a ELSE b

(* C12: alter_cache with a size of at least 1 sets the size and keeps the  *)
(* min(previous count, new size) most recently used entries.               *)
C12_ResizeKeepsMostRecent ==
    [][\A t \in Tasks :
        LET c == task'[t].cls
        IN  (AlterStep(t) /\ task'[t].n >= 1) =>
                /\ size'[c] = task'[t].n
                /\ cache'[c] = MostRecent(cache[c],
                                          Min(Len(cache[c]), task'[t].n))]_vars

(* C13: an alter_cache that keeps the size and gives a ttu removes no      *)
(* entry.                                                                  *)
C13_TtuChangeKeepsEntries ==
    [][\A t \in Tasks :
        LET c == task'[t].cls
        IN  (/\ AlterStep(t) /\ task'[t].n = size[c]
             /\ task'[t].u # NoTtu) =>
                /\ ttu'[c] = task'[t].u
                /\ cache'[c] = cache[c]]_vars

(* C14: alter_cache given a size below 1 or a ttu below 0 raises and sets  *)
(* nothing.                                                                *)
C14_InvalidConfigRejected ==
    [][\A t \in Tasks :
        (/\ AlterStep(t)
         /\ \/ task'[t].n < 1
            \/ task'[t].u # NoTtu /\ task'[t].u < 0) =>
            /\ task'[t].exc = "ValueError"
            /\ size' = size /\ ttu' = ttu]_vars

BulkOps == {"find", "get", "count"}

(* C15: find, get and count hand exactly one request to the executor and   *)
(* neither read nor reorder the cache before they do.                      *)
C15_BulkSearchAlwaysFetches ==
    [][\A t \in Tasks :
        /\ (\E op \in BulkOps : CallStep(t, op)) =>
              /\ task'[t].pc = "wait" /\ task'[t].calls = 1
              /\ cache' = cache
        /\ (\E op \in BulkOps : ReturnStep(t, op)) =>
              task'[t].calls = 1]_vars

(* A bulk search waiting for the executor while every id is cached. *)
C15_Witness ==
    \E t \in Tasks :
        /\ task[t].pc = "wait" /\ task[t].op \in BulkOps
        /\ task[t].calls = 1
        /\ \A i \in Ids : LiveIndex(task[t].cls, IdKey(i)) # 0

(* The last entity a finished find or get constructed, or None. *)
LastBuilt(t) ==
    IF task[t].op = "find" /\ task[t].list # <<>>
    THEN task[t].list[Len(task[t].list)]
    ELSE IF task[t].op = "get" THEN task[t].res
    ELSE None

(* C16: once find or get has returned, the cache check of a get_by_id for  *)
(* the id of the last entity constructed finds that very instance.         *)
C16_BulkSearchRegisters ==
    \A t \in Tasks :
        (/\ Done(t, "find") \/ Done(t, "get")
         /\ LastBuilt(t) # None) =>
            CheckCache(task[t].cls, IdKey(heap[LastBuilt(t)].id)).val
                = LastBuilt(t)

(* A find that built more entities than the cache holds. *)
C16_Witness ==
    \E t \in Tasks :
        /\ Done(t, "find") /\ Len(task[t].list) = 2
        /\ size[task[t].cls] = 1
        /\ cache[task[t].cls][1].val = task[t].list[2]

(* C17: once find or get on a Named type has returned entity E, the cache  *)
(* check of a get_by_name for the name of E, in any locale, finds E.       *)
C17_BulkSearchRegistersName ==
    \A t \in Tasks :
        LET c == task[t].cls
            E == LastBuilt(t)
        IN  (/\ Done(t, "find") \/ Done(t, "get")
             /\ c \in NamedTypes /\ E # None) =>
                \A loc \in Locales :
                    CheckCache(c, LookupKey(c, NameOf(heap[E], loc), loc)).val
                        = E

(* A step that is a whole direct construction by task t. *)
ConstructStep(t) ==
    task[t].pc = "idle" /\ task'[t].pc = "done" /\ task'[t].op = "new"

(* C18: a construction from a payload whose id field is absent or no       *)
(* number raises PayloadError, returns no entity and adds no cache entry.  *)
C18_BadIdIsPayloadError ==
    [][\A t \in Tasks :
        (ConstructStep(t) /\ task'[t].pay[1].idf # "ok") =>
            /\ task'[t].exc = "PayloadError"
            /\ task'[t].res = None
            /\ cache' = cache]_vars

(* C19: a construction whose data class cannot be built raises             *)
(* PayloadError, and a construction that raises, whatever it raises,       *)
(* leaves the cache as it was.                                             *)
C19_ConstructionAllOrNothing ==
    [][\A t \in Tasks :
        ConstructStep(t) =>
            /\ (task'[t].pay[1].idf = "ok" /\ task'[t].pay[1].fld # "ok") =>
                  task'[t].exc = "PayloadError"
            /\ task'[t].exc # "none" => cache' = cache]_vars

(* C20: a construction that succeeds issues a warning exactly when the     *)
(* payload holds a key that is neither consumed nor a join key, and the    *)
(* warning lists exactly those keys.                                       *)
C20_DriftSignal ==
    [][\A t \in Tasks :
        LET raw == task'[t].pay[1]
            drift == {k \in raw.left : ~IsJoinKey(k)}
        IN  (ConstructStep(t) /\ raw.idf = "ok" /\ raw.fld = "ok"
             /\ task'[t].loc # BadLocale) =>
                /\ task'[t].exc = "none"
                /\ task'[t].warn = IF drift # {} THEN <<drift>> ELSE <<>>]_vars

-----------------------------------------------------------------------------
LookupOps == {"get_by_id", "get_by_name"}

(* The cache key the lookup recorded in rec checks. *)
KeyOf(rec) ==
    IF rec.op = "get_by_id" THEN IdKey(rec.id)
    ELSE LookupKey(rec.cls, rec.name, rec.loc)

(* No object comes into being in this step. *)
NothingBuilt == \A n \in Instances : heap[n] = NoObj => heap'[n] = NoObj

(* No key comes into any cache in this step. *)
NothingAdded == \A c \in Types : Keys(cache'[c]) \subseteq Keys(cache[c])

(* C22: a get_by_id or get_by_name checks the cache first, hands a request *)
(* to the executor exactly when the check missed, and builds and registers *)
(* nothing before the executor has answered.                               *)
C22_ResolutionOrder ==
    [][\A t \in Tasks :
        /\ (\E op \in LookupOps : CallStep(t, op)) =>
              LET hit == LiveIndex(task'[t].cls, KeyOf(task'[t])) # 0
              IN  /\ hit => (task'[t].pc = "done" /\ task'[t].calls = 0)
                  /\ ~hit => (task'[t].pc = "wait" /\ task'[t].calls = 1)
                  /\ NothingBuilt /\ NothingAdded
        /\ (\E op \in LookupOps : ReturnStep(t, op)) =>
              (task[t].calls = 1 /\ task'[t].calls = 1)]_vars

(* A get_by_name that missed, fetched, and registered its entity under the *)
(* id and the name.                                                        *)
C22_Witness ==
    \E t \in Tasks :
        LET c == task[t].cls
        IN  /\ Done(t, "get_by_name") /\ task[t].calls = 1
            /\ task[t].res # None
            /\ KeyIndex(cache[c], IdKey(heap[task[t].res].id)) # 0
            /\ KeyIndex(cache[c], NameKey(task[t].loc, task[t].name)) # 0

CancelOps == {"get_by_id", "get_by_name", "find"}

(* C23: a get_by_id, get_by_name or find cancelled while it waits for the  *)
(* executor builds no entity and adds no cache entry: not when it is       *)
(* cancelled, and not before, on its way to the await.                     *)
C23_CancelledBuildsNothing ==
    [][\A t \in Tasks :
        /\ (\E op \in CancelOps : CallStep(t, op)) =>
              (NothingBuilt /\ NothingAdded)
        /\ (/\ \E op \in CancelOps : ReturnStep(t, op)
            /\ task'[t].exc = "CancelledError") =>
              /\ cache' = cache
              /\ NothingBuilt
              /\ task'[t].res = None /\ task'[t].list = <<>>]_vars

(* A cancelled find on a type whose cache holds entries. *)
C23_Witness ==
    \E t \in Tasks :
        /\ Done(t, "find") /\ task[t].exc = "CancelledError"
        /\ cache[task[t].cls] # <<>>

(* C24: when the executor raises a transport error, the call ends with     *)
(* that error after its one request, builds nothing, not from the fallback *)
(* table either, and leaves every cache as it was.                         *)
C24_TransportErrorPassesThrough ==
    [][\A t \in Tasks :
        (task[t].pc = "wait" /\ task'[t].exc = "TransportError") =>
            /\ task'[t].pc = "done"
            /\ task'[t].calls = 1
            /\ task'[t].res = None /\ task'[t].list = <<>>
            /\ cache' = cache
            /\ NothingBuilt]_vars

(* A get_by_id that failed in the executor although the fallback table has *)
(* an entry for its id.                                                    *)
C24_Witness ==
    \E t \in Tasks :
        LET c == task[t].cls
        IN  /\ Done(t, "get_by_id") /\ task[t].exc = "TransportError"
            /\ fallback[c].has /\ task[t].id \in fallback[c].ids
            /\ KeyIndex(cache[c], IdKey(task[t].id)) = 0

(* C25: count returns the number under the key "count" and raises          *)
(* PayloadError when the key is missing or its value is no number.         *)
C25_CountOrPayloadError ==
    [][\A t \in Tasks :
        (ReturnStep(t, "count") /\ task'[t].ans # NoAnswer) =>
            IF task'[t].ans.key /\ task'[t].ans.kind = "number"
            THEN task'[t].exc = "none" /\ task'[t].n = task'[t].ans.val
            ELSE task'[t].exc = "PayloadError"]_vars

(* C30: an alter_cache with a size of at least 1 leaves the cache empty,   *)
(* its size the given one and its ttu the given one, or the old one when   *)
(* none is given.                                                          *)
C30_AlterCacheResets ==
    [][\A t \in Tasks :
        LET c == task'[t].cls
        IN  (AlterStep(t) /\ task'[t].n >= 1) =>
                /\ task'[t].exc = "none"
                /\ cache'[c] = <<>>
                /\ size'[c] = task'[t].n
                /\ ttu'[c] = IF task'[t].u = NoTtu THEN ttu[c]
                              ELSE task'[t].u]_vars

(* An accepted alter_cache that gave a size and no ttu. *)
C30_Witness ==
    \E t \in Tasks :
        /\ Done(t, "alter_cache") /\ task[t].exc = "none"
        /\ task[t].n = MaxSize /\ task[t].u = NoTtu
        /\ size[task[t].cls] = MaxSize
        /\ ttu[task[t].cls] = MaxTtu

-----------------------------------------------------------------------------
ResolveStep(t) ==
    task'[t].proxy.resolved = task[t].proxy.resolved + 1

(* C26: every resolution of an InstanceProxy hands one request to the      *)
(* executor, so that k resolutions make k requests, and it returns the     *)
(* entity built from the answer, or None when the answer is empty, without *)
(* raising.                                                                *)
C26_OneRequestPerResolution ==
    [][\A t \in Tasks :
        /\ (ResolveStep(t) /\ task[t].proxy.kind = "instance") =>
              /\ task'[t].pc = "wait" /\ task'[t].calls = 1
              /\ task'[t].proxy.requests = task[t].proxy.requests + 1
              /\ task'[t].proxy.requests = task'[t].proxy.resolved
        /\ (/\ ReturnStep(t, "resolve")
            /\ task[t].proxy.kind = "instance"
            /\ task'[t].exc # "TransportError") =>
              /\ task'[t].exc = "none"
              /\ task'[t].calls = 1
              /\ IF task'[t].resp = <<>> THEN task'[t].res = None
                 ELSE /\ task'[t].res # None
                      /\ heap'[task'[t].res].cls = task[t].proxy.cls
                      /\ heap'[task'[t].res].id = task'[t].resp[1]]_vars

(* An InstanceProxy resolved twice, for two requests, the second one       *)
(* returning an entity.                                                    *)
C26_Witness ==
    \E t \in Tasks :
        /\ Done(t, "resolve") /\ task[t].proxy.kind = "instance"
        /\ task[t].proxy.resolved = MaxResolve
        /\ task[t].proxy.requests = MaxResolve
        /\ task[t].res # None

(* C27: the list a SequenceProxy resolves to is no longer than the limit   *)
(* of the proxy, and its element j is the entity built from the raw object *)
(* j of the answer.                                                        *)
C27_SequenceInAnswerOrder ==
    [][\A t \in Tasks :
        (/\ ReturnStep(t, "resolve")
         /\ task[t].proxy.kind = "sequence"
         /\ task'[t].exc = "none") =>
            /\ Len(task'[t].list) <= task[t].proxy.limit
            /\ Len(task'[t].list) = Len(task'[t].resp)
            /\ \A j \in 1..Len(task'[t].list) :
                  /\ heap'[task'[t].list[j]].cls = task[t].proxy.cls
                  /\ heap'[task'[t].list[j]].id = task'[t].resp[j]]_vars

(* A SequenceProxy resolved to as many entities as its limit allows, the   *)
(* higher id first, as the executor answered.                              *)
C27_Witness ==
    \E t \in Tasks :
        /\ Done(t, "resolve") /\ task[t].proxy.kind = "sequence"
        /\ Len(task[t].list) = task[t].proxy.limit
        /\ Len(task[t].list) > 1
        /\ heap[task[t].list[1]].id > heap[task[t].list[2]].id

(* The cache q of type c after the entities objs, in this order, have      *)
(* registered themselves under their ids.                                  *)
RECURSIVE Registered(_, _, _, _)
Registered(q, c, h, objs) ==
    IF objs = <<>> THEN q
    ELSE Registered(CacheAdd(q, IdKey(h[Head(objs)].id), Head(objs), now,
                             size[c]),
                    c, h, Tail(objs))

(* C28: handing out a proxy sends no request and changes no cache;         *)
(* resolving it sends the request whatever the cache holds and leaves the  *)
(* cache alone; and when the answer is in, the cache differs only by the   *)
(* registrations of the entities built from it.                            *)
C28_ProxiesLazyAndCacheTransparent ==
    [][\A t \in Tasks :
        /\ (task[t].proxy = NoProxy /\ task'[t].proxy # NoProxy) =>
              /\ cache' = cache /\ heap' = heap
              /\ task'[t].pc = task[t].pc
              /\ task'[t].calls = task[t].calls
              /\ task'[t].proxy.requests = 0
        /\ (task[t].proxy # NoProxy /\ ResolveStep(t)) =>
              /\ cache' = cache
              /\ task'[t].pc = "wait"
        /\ (ReturnStep(t, "resolve") /\ task'[t].exc = "none") =>
              LET c == task[t].cls
                  objs == IF task[t].proxy.kind = "sequence"
                          THEN task'[t].list
                          ELSE IF task'[t].res = None THEN <<>>
                          ELSE <<task'[t].res>>
              IN  /\ cache'[c] = Registered(cache[c], c, heap', objs)
                  /\ \A d \in Types \ {c} : cache'[d] = cache[d]]_vars

(* A SequenceProxy resolved a second time although the cache held what its *)
(* first resolution registered.                                            *)
C28_Witness ==
    \E t \in Tasks :
        /\ Done(t, "resolve") /\ task[t].proxy.kind = "sequence"
        /\ task[t].proxy.resolved = MaxResolve
        /\ task[t].calls = 1
        /\ task[t].list # <<>>
        /\ cache[task[t].cls] # <<>>

-----------------------------------------------------------------------------
(* C31: a get_by_id or get_by_name hands the executor no request when the  *)
(* cache check hits and one request when it misses, never a second one,    *)
(* and, the executor ending every request, the lookup ends: with an        *)
(* entity, with None, or with an error.                                    *)
C31_LookupCompletes ==
    /\ [][\A t \in Tasks :
            /\ (\E op \in LookupOps : CallStep(t, op)) =>
                  IF LiveIndex(task'[t].cls, KeyOf(task'[t])) # 0
                  THEN task'[t].calls = 0 /\ task'[t].pc = "done"
                  ELSE task'[t].calls = 1 /\ task'[t].pc = "wait"
            /\ (task[t].pc = "wait" /\ task[t].op \in LookupOps) =>
                  /\ task'[t].calls = task[t].calls
                  /\ task'[t].pc = "done"
                  /\ task'[t].res # None => task'[t].exc = "none"]_vars
    /\ \A t \in Tasks :
          (task[t].pc = "wait" /\ task[t].op \in LookupOps)
              ~> (task[t].pc = "done" /\ task[t].op \in LookupOps)

(* A get_by_name that missed and ended with the error of the executor. *)
C31_Witness ==
    \E t \in Tasks :
        /\ Done(t, "get_by_name") /\ task[t].calls = 1
        /\ task[t].exc = "TransportError"
        /\ cache[task[t].cls] # <<>>

(* C32: of two get_by_id calls for the same id that follow one another     *)
(* over unchanged remote data, either both return None or both return an   *)
(* entity with that id.                                                    *)
C32_OutcomeIndependentOfCache ==
    \A t \in Tasks :
        (/\ Done(t, "get_by_id") /\ task[t].prev.set
         /\ task[t].exc = "none") =>
            /\ (task[t].res # None) <=> task[t].prev.some
            /\ task[t].res # None => heap[task[t].res].id = task[t].id

(* Task t ends a get_by_id that missed and was answered, after task u has  *)
(* ended one for the same id of the same type that missed and was answered *)
(* too: with the results of gathered lookups dropped together, both        *)
(* checked the cache before either registered.                             *)
SecondOfRace(t, u) ==
    /\ t # u
    /\ ReturnStep(t, "get_by_id")
    /\ task[t].calls = 1 /\ task'[t].resp # <<>>
    /\ Done(u, "get_by_id")
    /\ task[u].cls = task[t].cls /\ task[u].id = task[t].id
    /\ task[u].calls = 1 /\ task[u].resp # <<>>

(* C33: of two interleaved get_by_id for the same uncached id, each hands  *)
(* the executor one request and each returns an instance of its own; when  *)
(* both have ended, the cache holds one entry for the id, the instance     *)
(* built last, and is within its size.                                     *)
C33_RaceLastWriterWins ==
    [][\A t, u \in Gathered :
        SecondOfRace(t, u) =>
            LET c == task[t].cls
                j == KeyIndex(cache'[c], IdKey(task[t].id))
            IN  /\ task'[t].calls = 1
                /\ task'[t].res # None /\ task[u].res # None
                /\ task'[t].res # task[u].res
                /\ heap[task'[t].res] = NoObj
                /\ j # 0 /\ cache'[c][j].val = task'[t].res
                /\ Cardinality({k \in 1..Len(cache'[c]) :
                       cache'[c][k].key = IdKey(task[t].id)}) = 1
                /\ Len(cache'[c]) <= size[c]]_vars

(* C34: whatever is constructed, looked up or reconfigured on one type,    *)
(* the cache of every other type, its size and its ttu stay as they are.   *)
C34_CachesIsolatedPerType ==
    [][\A t \in Tasks :
        task'[t] # task[t] =>
            \A d \in Types \ {task'[t].cls} :
                /\ cache'[d] = cache[d]
                /\ size'[d] = size[d]
                /\ ttu'[d] = ttu[d]]_vars

(* A get_by_id on Character that fetched and registered an entity whose id *)
(* the cache of OutfitMember holds as well.                                *)
C34_Witness ==
    \E t \in Tasks :
        /\ Done(t, "get_by_id") /\ task[t].cls = Character
        /\ task[t].calls = 1 /\ task[t].res # None
        /\ KeyIndex(cache[Character], IdKey(task[t].id)) # 0
        /\ KeyIndex(cache[OutfitMember], IdKey(task[t].id)) # 0

(* The keys of the cache of type c that map to instance n. *)
KeysOf(q, n) == {q[j].key : j \in {k \in 1..Len(q) : q[k].val = n}}

Malformed(raw) == raw.idf # "ok" \/ raw.fld # "ok"

(* The position of the first malformed raw object of ps, or 0. *)
FirstMalformed(ps) ==
    IF \E k \in 1..Len(ps) : Malformed(ps[k])
    THEN CHOOSE k \in 1..Len(ps) :
             Malformed(ps[k]) /\ \A j \in 1..(k - 1) : ~Malformed(ps[j])
    ELSE 0

(* C36: a find whose answer has a malformed raw object at position k       *)
(* raises PayloadError and returns no list, and the entities built from    *)
(* the positions before k, as far as the size of the cache allows, are     *)
(* registered in the cache.                                                *)
C36_FindFailsWithPayloadError ==
    [][\A t \in Tasks :
        LET c == task[t].cls
            k == FirstMalformed(task'[t].pay)
        IN  (ReturnStep(t, "find") /\ k # 0) =>
                /\ task'[t].exc = "PayloadError"
                /\ task'[t].list = <<>>
                /\ \A j \in 1..(k - 1) :
                      (k - 1) - j < size[c] =>
                          KeyIndex(cache'[c], IdKey(task'[t].pay[j].id)) # 0]_vars

(* C37: get_online hands the executor one request whose limit is the       *)
(* number of ids given, and returns, in the order of the answer, an entity *)
(* for every character of the answer whose online_status is not zero; for  *)
(* the others nothing is built and nothing registered.                     *)
C37_GetOnlineKeepsOnlineOnly ==
    [][\A t \in Tasks :
        /\ CallStep(t, "get_online") =>
              /\ task'[t].pc = "wait" /\ task'[t].calls = 1
              /\ task'[t].n = Len(task'[t].args)
              /\ cache' = cache
        /\ (ReturnStep(t, "get_online") /\ ~ExecutorFailed(task'[t])) =>
              LET c == task[t].cls
                  r == task'[t].resp
                  on == task'[t].online
                  ids == OnlineOf(r, on)
                  built == {n \in Instances :
                               heap[n] = NoObj /\ heap'[n] # NoObj}
              IN  /\ task'[t].calls = 1 /\ task'[t].exc = "none"
                  /\ Len(task'[t].list) = Len(ids)
                  /\ \A j \in 1..Len(ids) :
                        /\ heap'[task'[t].list[j]].id = ids[j]
                        /\ heap'[task'[t].list[j]].cls = c
                  /\ built = {task'[t].list[j] : j \in 1..Len(ids)}
                  /\ cache'[c] = Registered(cache[c], c, heap', task'[t].list)
                  /\ \A j \in 1..Len(r) :
                        (on[j] = <<"0">> /\ KeyIndex(cache[c], IdKey(r[j])) = 0)
                            => KeyIndex(cache'[c], IdKey(r[j])) = 0]_vars

(* A get_online for two ids answered with an offline character first and   *)
(* one on world 10 second: the second alone is returned.                   *)
C37_Witness ==
    \E t \in Tasks :
        /\ Done(t, "get_online") /\ task[t].n = 2
        /\ Len(task[t].resp) = 2
        /\ task[t].online = <<(<<"0">>), (<<"1", "0">>)>>
        /\ Len(task[t].list) = 1
        /\ heap[task[t].list[1]].id = task[t].resp[2]

-----------------------------------------------------------------------------
(* The value of dict node under the keys ks, one level each, or NoNode. *)
RECURSIVE At(_, _)
At(node, ks) ==
    IF ks = <<>> THEN node
    ELSE IF node.kind = "dict" /\ Head(ks) \in DOMAIN node.items
    THEN At(node.items[Head(ks)], Tail(ks))
    ELSE NoNode

KeyPaths == UNION {[1..n -> DictKeys] : n \in 1..MaxDepth}

IsPrefix(p, q) == Len(p) <= Len(q) /\ SubSeq(q, 1, Len(p)) = p

(* With the value under path gone from d, the dict under the first j keys  *)
(* of path is gone or empty too: from there down the path each dict held   *)
(* the next key of the path and no other.                                  *)
Emptied(d, path, j) ==
    \A m \in j..(Len(path) - 1) :
        DOMAIN At(d, SubSeq(path, 1, m)).items = {path[m + 1]}

(* C38: nested_dict_get leaves the dict as it is.  For a dotted key that   *)
(* nested_dict_get finds, nested_dict_pop returns the value                *)
(* nested_dict_get returns, and leaves the dict without the value under    *)
(* the key, without the dicts above it that the removal emptied, and with  *)
(* everything else as it was.                                              *)
C38_PopReturnsAndPrunes ==
    [][\A t \in Tasks :
        /\ (task[t].op = "none" /\ task'[t].op = "nested_dict_get") =>
              task'[t].dict = task[t].dict
        /\ (/\ task[t].op # "nested_dict_pop"
            /\ task'[t].op = "nested_dict_pop"
            /\ nested_dict_get(task[t].dict, task[t].key).exc = "none") =>
              LET d == task[t].dict
                  e == task'[t].dict
                  path == Split(task[t].key)
              IN  /\ task'[t].exc = "none"
                  /\ task'[t].out = nested_dict_get(d, task[t].key).val
                  /\ e.kind = "dict"
                  /\ \A q \in KeyPaths :
                        IF IsPrefix(path, q) THEN At(e, q) = NoNode
                        ELSE IF IsPrefix(q, path)
                        THEN IF Emptied(d, path, Len(q))
                             THEN At(e, q) = NoNode
                             ELSE /\ At(e, q).kind = "dict"
                                  /\ DOMAIN At(e, q).items =
                                        IF Emptied(d, path, Len(q) + 1)
                                        THEN DOMAIN At(d, q).items
                                                 \ {path[Len(q) + 1]}
                                        ELSE DOMAIN At(d, q).items
                        ELSE At(e, q) = At(d, q)]_vars

(* A pop of a key of three parts that took the leaf and with it every dict *)
(* above it, each having held nothing else.                                *)
C38_Witness ==
    \E t \in Tasks :
        /\ Done(t, "nested_dict_pop") /\ task[t].exc = "none"
        /\ Len(Split(task[t].key)) = MaxDepth
        /\ task[t].out = Leaf(1)
        /\ task[t].dict = Dict(NoItems)

====
